---- MODULE Spec2Model ----
(***************************************************************************)
(* Firebase image gallery: js/firebaseConfig.js (src/unnamed/part_000,     *)
(* lines 1-343), js/app.js, components/uploadForm.js (which also holds the *)
(* image card component) and components/imageGrid.js.                      *)
(*                                                                         *)
(* Strings that are split or concatenated by the code (file names, object  *)
(* keys) are sequences of one-character strings; other strings (messages,  *)
(* MIME types, error codes) are TLA+ strings.                              *)
(***************************************************************************)
EXTENDS Integers, Sequences, FiniteSets, TLC

(* Values of different JavaScript types are kept apart by records with different  *)
(* fields: a number is [int |-> n] where it can also be NaN or a string.         *)
\* the number NaN
NaN == [nan |-> TRUE]
\* the value undefined
undefined == [undef |-> TRUE]

(* ------------------------------ bounds -------------------------------- *)
\* uploads started from the form in one run
MaxUploads == 2
\* direct uploadFile calls in one run
MaxDirect == 1
\* progress events the store emits for one upload
MaxProgress == 1
\* window.refreshGallery() calls in one run
MaxRefresh == 1

(* ------------------------------ strings ------------------------------- *)
RECURSIVE NumToStr(_)
\* `${timestamp}` : the decimal digits of a non-negative integer
NumToStr(n) ==
    LET d == <<"0", "1", "2", "3", "4", "5", "6", "7", "8", "9">>
    IN  IF n < 10 THEN <<d[n + 1]>> ELSE NumToStr(n \div 10) \o <<d[(n % 10) + 1]>>

RECURSIVE SplitOn(_, _)
\* String.prototype.split(sep) for a one-character separator
SplitOn(s, sep) ==
    IF \A i \in 1..Len(s) : s[i] # sep
    THEN <<s>>
    ELSE LET k == CHOOSE i \in 1..Len(s) : s[i] = sep /\ \A j \in 1..(i - 1) : s[j] # sep
         IN  <<SubSeq(s, 1, k - 1)>> \o SplitOn(SubSeq(s, k + 1, Len(s)), sep)

RECURSIVE JoinWith(_, _)
\* Array.prototype.join(sep)
JoinWith(parts, sep) ==
    IF Len(parts) = 0 THEN <<>>
    ELSE IF Len(parts) = 1 THEN parts[1]
    ELSE parts[1] \o <<sep>> \o JoinWith(Tail(parts), sep)

(* --------------------- firebaseConfig.js: validation ------------------ *)
allowedTypes == {"image/jpeg", "image/jpg", "image/png", "image/gif", "image/webp"}

\* a limit one byte lower
maxSizeExclusive == 5 * 1024 * 1024 - 1

maxSize == 5 * 1024 * 1024

validateImageFile(file) ==
    IF file.type \notin allowedTypes
    THEN [valid |-> FALSE, error |-> "Please select an image file (JPEG, PNG, GIF, or WebP)"]
    ELSE IF file.size > maxSize
    THEN [valid |-> FALSE, error |-> "File size must be less than 5MB"]
    ELSE [valid |-> TRUE]

(* ------------------------------ inputs -------------------------------- *)
\* file names the user can pick
FileNames == {<<"a">>, <<"a", "_", "b">>}

\* files the user can pick: accepted ones, one of a rejected type, one too large
Files ==
    {[name |-> <<"a", "_", "b">>, type |-> "image/png", size |-> 8],
     [name |-> <<"a">>, type |-> "image/png", size |-> 0],
     [name |-> <<"a">>, type |-> "image/gif", size |-> 40],
     [name |-> <<"a">>, type |-> "text/plain", size |-> 8],
     [name |-> <<"a">>, type |-> "image/jpeg", size |-> maxSize + 1]}

\* bytesTransferred values the store reports for a file of `total` bytes
ProgressPoints(total) ==
    {0, total \div 8, total} \cup (IF total % 40 = 0 THEN {23 * (total \div 40)} ELSE {})

\* files the user picks in the form
FormFiles == {f \in Files : f.size = 8}

\* error codes of the store's upload task
ErrorCodes == {"storage/unauthorized", "storage/canceled", "storage/unknown",
               "storage/retry-limit-exceeded"}

\* error codes the store answers the form's uploads with
FormErrorCodes == {"storage/unauthorized", "storage/retry-limit-exceeded"}


\* contents of the bucket when the page is first opened (keys under images/): the
\* bucket is empty until the page's own uploads fill it
InitialStores == {<<>>}

(* --------------------- firebaseConfig.js: configuration --------------- *)
\* String.prototype.includes on strings held as sequences of characters
Includes(s, searchString) ==
    \E i \in 0..(Len(s) - Len(searchString)) :
        SubSeq(s, i + 1, i + Len(searchString)) = searchString

\* the values of the configuration template that still hold placeholder text
Placeholders ==
    {<<"y", "o", "u", "r", "-", "a", "p", "i", "-", "k", "e", "y", "-", "h", "e", "r", "e">>,
     <<"y", "o", "u", "r", "-", "a", "c", "t", "u", "a", "l", "-", "a", "p", "i", "-", "k", "e", "y">>,
     <<"y", "o", "u", "r", "-", "p", "r", "o", "j", "e", "c", "t", "-", "i", "d", ".", "f", "i", "r", "e", "b", "a", "s", "e", "a", "p", "p", ".", "c", "o", "m">>,
     <<"y", "o", "u", "r", "-", "p", "r", "o", "j", "e", "c", "t", "-", "i", "d">>,
     <<"y", "o", "u", "r", "-", "p", "r", "o", "j", "e", "c", "t", "-", "i", "d", ".", "a", "p", "p", "s", "p", "o", "t", ".", "c", "o", "m">>,
     <<"y", "o", "u", "r", "-", "m", "e", "s", "s", "a", "g", "i", "n", "g", "-", "s", "e", "n", "d", "e", "r", "-", "i", "d">>,
     <<"y", "o", "u", "r", "-", "a", "p", "p", "-", "i", "d">>}

\* value.includes("your-")
IncludesYour(v) == Includes(v, <<"y", "o", "u", "r", "-">>)

\* configurations the page can be deployed with; the strings are sequences of
\* characters
configTemplate ==
    [apiKey |-> <<"A", "I", "z", "a", "S", "y">>,
     authDomain |-> <<"w", "e", "b", ".", "f", "i", "r", "e", "b", "a", "s", "e", "a", "p", "p", ".", "c", "o", "m">>,
     projectId |-> <<"w", "e", "b", "-", "5", "0", "4", "-", "e", "x", "a", "m", "p", "l", "e">>,
     storageBucket |-> <<"w", "e", "b", ".", "f", "i", "r", "e", "b", "a", "s", "e", "s", "t", "o", "r", "a", "g", "e", ".", "a", "p", "p">>,
     messagingSenderId |-> <<"8", "2", "3">>, appId |-> <<"1", ":", "8", "2", "3", ":", "w", "e", "b">>]

Configs ==
    {configTemplate,
     [configTemplate EXCEPT !.apiKey = <<"y", "o", "u", "r", "-", "a", "p", "i", "-", "k", "e", "y", "-", "h", "e", "r", "e">>],
     [configTemplate EXCEPT !.projectId = <<"y", "o", "u", "r", "-", "p", "r", "o", "j", "e", "c", "t", "-", "i", "d">>]}

\* configurations the page is opened with
PageConfigs == {cfg \in Configs : cfg.projectId = configTemplate.projectId}

isFirebaseConfigured(cfg) ==
    LET hasPlaceholders ==
            \/ cfg.apiKey = <<"y", "o", "u", "r", "-", "a", "p", "i", "-", "k", "e", "y", "-", "h", "e", "r", "e">>
            \/ IncludesYour(cfg.apiKey)
    IN  ~hasPlaceholders

(* --------------------- imageCard: formatting helpers ------------------ *)
Digits == {"0", "1", "2", "3", "4", "5", "6", "7", "8", "9"}

DigitVal(c) == CHOOSE n \in 0..9 : NumToStr(n) = <<c>>

RECURSIVE DigitsToNum(_)
DigitsToNum(s) ==
    IF Len(s) = 0 THEN 0 ELSE 10 * DigitsToNum(SubSeq(s, 1, Len(s) - 1)) + DigitVal(s[Len(s)])

\* The 25 code units parseInt skips (white space and line terminators). Space,
\* tab, line feed, carriage return and form feed are written with their escapes;
\* U+000B, U+00A0, U+1680 and U+FEFF as the characters themselves; the 16 that a
\* module cannot hold in a string stand under the name of their code point.
WhiteSpace ==
    {" ", "\t", "\n", "\r", "\f", "", " ", " ", "﻿",
     "U+2000", "U+2001", "U+2002", "U+2003", "U+2004", "U+2005", "U+2006", "U+2007",
     "U+2008", "U+2009", "U+200A", "U+2028", "U+2029", "U+202F", "U+205F", "U+3000"}

\* the string without its leading white space
RECURSIVE TrimStart(_)
TrimStart(s) == IF s # <<>> /\ s[1] \in WhiteSpace THEN TrimStart(Tail(s)) ELSE s

\* parseInt(s, 10): leading white space is skipped, one sign is accepted, and the value
\* is that of the longest run of decimal digits that follows; NaN when it is empty
parseInt(s) ==
    LET t == TrimStart(s)
        signed == t # <<>> /\ t[1] \in {"-", "+"}
        sign == IF t # <<>> /\ t[1] = "-" THEN -1 ELSE 1
        body == IF signed THEN Tail(t) ELSE t
        stops == {i \in 1..Len(body) : body[i] \notin Digits}
        n == IF stops = {} THEN Len(body)
             ELSE (CHOOSE i \in stops : \A j \in stops : i <= j) - 1
    IN  IF n = 0 THEN NaN ELSE [int |-> sign * DigitsToNum(SubSeq(body, 1, n))]

\* a display name that keeps only what follows the last underscore
lastPartOfFileName(filename) == SplitOn(filename, "_")[Len(SplitOn(filename, "_"))]

\* every record of the model carries a name, so !filename is the empty string
formatFileName(filename) ==
    IF filename = <<>>
    THEN <<"U", "n", "t", "i", "t", "l", "e", "d">>
    ELSE LET parts == SplitOn(filename, "_")
         IN  IF Len(parts) > 1 THEN JoinWith(Tail(parts), "_") ELSE filename

\* A timestamp is the number [int |-> n] (uploadFile), the string [str |-> s]
\* (listAllImages) or undefined. toLocaleString is kept abstract: [date |-> n]
\* stands for the formatted date of epoch millisecond n.
dateUnknown == [text |-> "Date unknown"]

formatTimestamp(timestamp) ==
    IF timestamp = undefined \/ timestamp = [int |-> 0] \/ timestamp = [str |-> <<>>]
    THEN dateUnknown
    ELSE LET timestampNum ==
                 IF "int" \in DOMAIN timestamp THEN timestamp ELSE parseInt(timestamp.str)
         IN  IF timestampNum = NaN THEN dateUnknown ELSE [date |-> timestampNum.int]

\* img.alt once the 'error' listener of the card's img has run
failedToLoad == <<"F", "a", "i", "l", "e", "d", " ", "t", "o", " ", "l", "o", "a", "d", " ", "i", "m", "a", "g", "e">>

\* the card as built: imgClass is the class of its img, 'loading' until the
\* browser has settled the download; every record of the model carries a name, so
\* a missing name is the empty string
createImageCard(imageData) ==
    [kind |-> "image-card", src |-> imageData.url, imgClass |-> "loading",
     alt |-> IF imageData.name = <<>>
             THEN <<"G", "a", "l", "l", "e", "r", "y", " ", "i", "m", "a", "g", "e">>
             ELSE imageData.name,
     imageName |-> formatFileName(imageData.name),
     meta |-> formatTimestamp(imageData.timestamp)]

(* ------------------------------ imageGrid ----------------------------- *)
emptyStateNode == [kind |-> "empty-state"]

\* createLoadingCard: a skeleton card
loadingCard == [kind |-> "loading-card"]

loadingCardsCount == 6

renderLoadingState(container) == container \o [i \in 1..loadingCardsCount |-> loadingCard]

renderImages(container, imgs) ==
    container \o [i \in 1..Len(imgs) |-> createImageCard(imgs[i])]

renderEmptyState(container) == Append(container, emptyStateNode)

\* options is {images, isLoading}; app.js always passes isLoading: false
createImageGrid(options) ==
    IF options.isLoading THEN renderLoadingState(<<>>)
    ELSE IF Len(options.images) = 0 THEN renderEmptyState(<<>>)
    ELSE renderImages(<<>>, options.images)

updateImageGrid(gridElement, imgs) ==
    IF Len(imgs) = 0 THEN renderEmptyState(<<>>) ELSE renderImages(<<>>, imgs)

addImageToGrid(gridElement, imageData) ==
    LET emptyState == \E i \in 1..Len(gridElement) : gridElement[i].kind = "empty-state"
        cleared == IF emptyState THEN <<>> ELSE gridElement
    IN  <<createImageCard(imageData)>> \o cleared

(* --------------------- firebaseConfig.js: records --------------------- *)
\* `${timestamp}_${file.name}`
buildFilename(timestamp, name) == NumToStr(timestamp) \o <<"_">> \o name

fullPathOf(filename) == <<"images/">> \o filename

\* getDownloadURL: the store issues one URL per object path
urlOf(fullPath) == <<"https://">> \o fullPath

\* the record uploadFile hands to onComplete
uploadRecord(u) ==
    [url |-> urlOf(fullPathOf(u.filename)), name |-> u.file.name,
     fullPath |-> fullPathOf(u.filename), timestamp |-> [int |-> u.timestamp]]

\* the record listAllImages builds for one listed object
listRecord(objName) ==
    [url |-> urlOf(fullPathOf(objName)), name |-> objName,
     fullPath |-> fullPathOf(objName), timestamp |-> [str |-> SplitOn(objName, "_")[1]]]

\* The odd j for which the double (j / 200) * 100 lies just below j / 2, so that
\* Math.round gives (j - 1) / 2: 29/200 gives 14.499999999999998 and 23/40 gives
\* 57.49999999999999. For every other quotient of two integers below 2^31 the
\* rounding error of the two operations is too small to move the result.
halvesRoundedDown == {29, 57, 113, 115}

\* Math.round((bytesTransferred / totalBytes) * 100) in double arithmetic; 0 / 0
\* is NaN
roundProgress(bytesTransferred, totalBytes) ==
    IF totalBytes = 0 THEN NaN
    ELSE IF \E j \in halvesRoundedDown : 200 * bytesTransferred = j * totalBytes
    THEN [int |-> (200 * bytesTransferred) \div (2 * totalBytes)]
    ELSE [int |-> (200 * bytesTransferred + totalBytes) \div (2 * totalBytes)]

\* one message for every code
defaultErrorMessage(code) == "Upload failed. Please try again."

\* the switch on error.code in uploadFile's error callback
errorMessage(code) ==
    CASE code = "storage/unauthorized" -> "Permission denied. Check Firebase Storage rules."
      [] code = "storage/canceled" -> "Upload was canceled."
      [] code = "storage/unknown" -> "An unknown error occurred during upload."
      [] OTHER -> "Upload failed. Please try again."


(* ------------------------------- state -------------------------------- *)
VARIABLES
    config,             \* firebaseConfig, fixed for the page load
    storage,            \* TRUE when the module-level initializeApp/getStorage succeeded
    pc,                 \* position of initializeApp: "boot", "unconfigured", "awaitLoad", "done"
    images,             \* appState.images
    isLoading,          \* appState.isLoading
    gridElement,        \* appState.gridElement: [exists |-> FALSE] or its child nodes
    uploadFormElement,  \* TRUE once appState.uploadFormElement holds the form
    banner,             \* the #status-message element
    refreshes,          \* number of window.refreshGallery() calls made
    fetches,            \* the loadAndDisplayImages calls, in the order they started
    store,              \* names of the objects under images/, in listing order
    now,                \* last value of Date.now() used; it advances between uploads
    form,               \* the elements createUploadForm builds
    timers,             \* pending setTimeout callbacks of the form
    uploads,            \* the uploadFile calls, in the order they started
    call                \* a function called on its own: name, arguments, progress, result

appVars == <<pc, images, isLoading, gridElement, uploadFormElement, banner, refreshes>>
formVars == <<form, timers>>
envVars == <<config, storage>>
vars == <<config, storage, pc, images, isLoading, gridElement, uploadFormElement, banner,
          refreshes, fetches, store, now, form, timers, uploads, call>>

\* no helper is being called
noCall == [fn |-> "none"]

noGrid == [exists |-> FALSE]
Grid(children) == [exists |-> TRUE, children |-> children]

\* the form as createUploadForm leaves it
initialForm ==
    [fileInputDisabled |-> FALSE, uploadButtonDisabled |-> TRUE,
     buttonText |-> "Upload Image", files |-> <<>>, active |-> FALSE,
     barWidth |-> [unset |-> TRUE], progressText |-> [lit |-> "Ready to upload"],
     textColor |-> ""]

\* the page before DOMContentLoaded
InitPage ==
    /\ config \in PageConfigs
    /\ storage \in BOOLEAN
    /\ pc = "boot"
    /\ images = <<>>
    /\ isLoading = FALSE
    /\ gridElement = noGrid
    /\ uploadFormElement = FALSE
    /\ banner = [message |-> [lit |-> ""], type |-> "", show |-> FALSE,
                 timeouts |-> {}, hideTimeout |-> 0]
    /\ refreshes = 0
    /\ fetches = <<>>
    /\ store \in InitialStores
    /\ now = 0
    /\ form = initialForm
    /\ timers = [hide |-> 0, reset |-> 0]
    /\ uploads = <<>>

Init == InitPage /\ call = noCall

(* ------------------------- app.js: status banner ---------------------- *)
\* The element holds its text, its type class, whether it has class 'show', the
\* timers setTimeout has pending for it (id and delay in ms) and its hideTimeout
\* property (0 while unset). A timer id is any id no pending timer has.
defaultDuration == 5000

\* a showStatusMessage that never clears the timer it set before
keptTimers(timeouts, hideTimeout) == timeouts

\* if (statusElement.hideTimeout) clearTimeout(statusElement.hideTimeout)
clearedTimers(timeouts, hideTimeout) ==
    IF hideTimeout # 0 THEN {t \in timeouts : t.id # hideTimeout} ELSE timeouts

\* the id setTimeout returns
freshId(timeouts) ==
    CHOOSE id \in 1..(Cardinality(timeouts) + 1) : \A t \in timeouts : t.id # id

showStatusMessage(statusElement, message, type, duration) ==
    LET kept == clearedTimers(statusElement.timeouts, statusElement.hideTimeout)
    IN  [message |-> message, type |-> type, show |-> TRUE,
         timeouts |-> kept \cup {[id |-> freshId(kept), delay |-> duration]},
         hideTimeout |-> freshId(kept)]

\* the callback of the hide timer t
hideStatusMessage(statusElement, t) ==
    [statusElement EXCEPT !.show = FALSE, !.timeouts = @ \ {t}]

(* ------------------------- uploadForm.js: callbacks ------------------- *)
\* onProgress of the click handler
formOnProgress(f, progress) ==
    [f EXCEPT !.barWidth = progress, !.progressText = [uploading |-> progress]]

\* an onError that reports the error and leaves the controls disabled
formOnErrorTextOnly(f, error) ==
    [f EXCEPT !.progressText = [error |-> error.message], !.textColor = "error"]

\* onError of the click handler, up to the call of the parent callback
formOnError(f, error) ==
    [f EXCEPT !.progressText = [error |-> error.message], !.textColor = "error",
              !.fileInputDisabled = FALSE, !.uploadButtonDisabled = FALSE,
              !.buttonText = "Upload Image"]

\* onComplete of the click handler, up to the call of the parent callback
formOnComplete(f) ==
    [f EXCEPT !.barWidth = [int |-> 100], !.progressText = [lit |-> "Upload complete!"],
              !.textColor = "success"]

\* the 2000 ms timer set by onComplete
formReset(f) ==
    [f EXCEPT !.files = <<>>, !.fileInputDisabled = FALSE, !.uploadButtonDisabled = TRUE,
              !.buttonText = "Upload Image", !.active = FALSE, !.barWidth = [int |-> 0],
              !.progressText = [lit |-> "Ready to upload"], !.textColor = "text"]

\* the 3000 ms timer set by onError
formHide(f) == [f EXCEPT !.active = FALSE, !.barWidth = [int |-> 0]]

\* a click handler that forgets to disable the upload button
clickDisablesInputOnly(f) ==
    [f EXCEPT !.fileInputDisabled = TRUE, !.buttonText = "Uploading...", !.active = TRUE]

\* the controls once the click handler has accepted the file
clickDisables(f) ==
    [f EXCEPT !.fileInputDisabled = TRUE, !.uploadButtonDisabled = TRUE,
              !.buttonText = "Uploading...", !.active = TRUE]

(* ------------------------- app.js: upload handlers -------------------- *)
\* push instead of unshift
pushImage(imgs, imageData) == Append(imgs, imageData)

\* appState.images.unshift(imageData)
unshiftImage(imgs, imageData) == <<imageData>> \o imgs

\* the grid after handleUploadSuccess
gridAfterUpload(g, imageData) ==
    IF g.exists THEN Grid(addImageToGrid(g.children, imageData)) ELSE g

handleUploadSuccess(imageData) ==
    /\ images' = unshiftImage(images, imageData)
    /\ gridElement' = gridAfterUpload(gridElement, imageData)
    /\ banner' = showStatusMessage(banner, [lit |-> "Image uploaded successfully!"], "success",
                                 defaultDuration)

\* an error handler that drops the list
clearingUploadError(error) ==
    /\ banner' = showStatusMessage(banner, [uploadFailed |-> error.message], "error",
                                 defaultDuration)
    /\ images' = <<>>
    /\ UNCHANGED gridElement

handleUploadError(error) ==
    /\ banner' = showStatusMessage(banner, [uploadFailed |-> error.message], "error",
                                 defaultDuration)
    /\ UNCHANGED <<images, gridElement>>


(* --------------------- firebaseConfig.js: uploadFile ------------------ *)
\* One entry of `uploads` per uploadFile call. bytes is the task's
\* snapshot.bytesTransferred and sent the number of progress events still counted
\* against MaxProgress (0 again once the task has ended); stored tells whether the
\* store created the object. A direct call passes callbacks that record their
\* invocation: log lists them in order, and events lists the bytesTransferred of
\* the progress events the store emitted. The form passes its own closures, whose
\* effects are the form's and the app's state, and log and events stay empty.
\* terminal lists the terminal callbacks (onError, onComplete) invoked for the call.
recorded(origin, entries) == IF origin = "direct" THEN entries ELSE <<>>

logProgress(progress) == [cb |-> "onProgress", arg |-> progress]
logError(error) == [cb |-> "onError", arg |-> error]
logComplete(record) == [cb |-> "onComplete", arg |-> record]

noFile == [name |-> <<>>, type |-> "", size |-> 0]

\* the upload task uploadFile creates: timestamp, filename, uploadBytesResumable
newUpload(origin, file, timestamp) ==
    [origin |-> origin, hasFile |-> TRUE, file |-> file, timestamp |-> timestamp,
     filename |-> buildFilename(timestamp, file.name), phase |-> "running",
     bytes |-> 0, sent |-> 0, events |-> <<>>, log |-> <<>>, terminal |-> <<>>,
     stored |-> FALSE]

\* a call that ended inside uploadFile or its caller with onError(error)
endedUpload(origin, hasFile, file, error) ==
    [origin |-> origin, hasFile |-> hasFile, file |-> file, timestamp |-> 0,
     filename |-> <<>>, phase |-> "done", bytes |-> 0, sent |-> 0, events |-> <<>>,
     log |-> recorded(origin, <<logError(error)>>), terminal |-> <<"onError">>,
     stored |-> FALSE]

\* uploadBytesResumable completing: the object exists under its path
putObject(objects, filename) ==
    IF \E k \in 1..Len(objects) : objects[k] = filename THEN objects
    ELSE Append(objects, filename)

\* the callbacks the success handler of uploadFile invokes once the URL is known;
\* throws tells whether this call of onComplete throws
successCallbacks(u, throws) ==
    IF throws
    THEN <<logComplete(uploadRecord(u)), logError([message |-> "onComplete threw"])>>
    ELSE <<logComplete(uploadRecord(u))>>

\* uploadFile called directly with caller-supplied callbacks that only record
UploadFileDirect(fileArg) ==
    /\ Len(uploads) < MaxDirect
    /\ storage
    /\ IF fileArg = <<>>
       THEN /\ uploads' = Append(uploads,
                     endedUpload("direct", FALSE, noFile, [message |-> "No file provided"]))
            /\ UNCHANGED now
       ELSE /\ uploads' = Append(uploads, newUpload("direct", fileArg[1], now + 1))
            /\ now' = now + 1
    /\ UNCHANGED <<appVars, formVars, envVars, call, fetches, store>>

\* 'state_changed' progress callback
UploadProgress(i, b) ==
    LET u == uploads[i]
        progress == roundProgress(b, u.file.size)
    IN  /\ u.phase = "running"
        /\ u.sent < MaxProgress
        /\ b \in ProgressPoints(u.file.size) /\ b >= u.bytes
        /\ uploads' = [uploads EXCEPT ![i].bytes = b, ![i].sent = @ + 1,
                                      ![i].events = @ \o recorded(u.origin, <<b>>),
                                      ![i].log = @ \o recorded(u.origin, <<logProgress(progress)>>)]
        /\ form' = IF u.origin = "form" THEN formOnProgress(form, progress) ELSE form
        /\ UNCHANGED <<appVars, envVars, call, fetches, store, now, timers>>

\* error callback of the upload task
UploadFails(i, code) ==
    LET u == uploads[i]
        error == [message |-> errorMessage(code)]
    IN  /\ u.phase = "running"
        /\ u.origin = "form" => code \in FormErrorCodes
        /\ uploads' = [uploads EXCEPT ![i].phase = "done", ![i].sent = 0,
                                      ![i].terminal = Append(@, "onError"),
                                      ![i].log = @ \o recorded(u.origin, <<logError(error)>>)]
        /\ IF u.origin = "form"
           THEN /\ form' = formOnError(form, error)
                /\ timers' = [timers EXCEPT !.hide = @ + 1]
                /\ handleUploadError(error)
           ELSE UNCHANGED <<form, timers, banner, images, gridElement>>
        /\ UNCHANGED <<envVars, call, pc, isLoading, uploadFormElement, refreshes, fetches, store, now>>

\* the store finishes the transfer: the success callback starts and awaits the URL
UploadSucceeds(i) ==
    LET u == uploads[i]
    IN  /\ u.phase = "running"
        /\ uploads' = [uploads EXCEPT ![i].phase = "urlLookup", ![i].stored = TRUE,
                                      ![i].sent = 0, ![i].bytes = u.file.size]
        /\ store' = putObject(store, u.filename)
        /\ UNCHANGED <<appVars, formVars, envVars, call, fetches, now>>

\* getDownloadURL resolves: onComplete, and onError when onComplete throws
DownloadURLResolves(i, throws) ==
    LET u == uploads[i]
    IN  /\ u.phase = "urlLookup"
        /\ throws => u.origin = "direct"
        /\ uploads' = [uploads EXCEPT
                        ![i].phase = "done",
                        ![i].terminal = @ \o [k \in 1..Len(successCallbacks(u, throws)) |->
                                                successCallbacks(u, throws)[k].cb],
                        ![i].log = @ \o recorded(u.origin, successCallbacks(u, throws))]
        /\ IF u.origin = "form"
           THEN /\ form' = formOnComplete(form)
                /\ handleUploadSuccess(uploadRecord(u))
                /\ timers' = [timers EXCEPT !.reset = @ + 1]
           ELSE UNCHANGED <<form, timers, banner, images, gridElement>>
        /\ UNCHANGED <<envVars, call, pc, isLoading, uploadFormElement, refreshes, fetches, store, now>>

\* getDownloadURL rejects: the catch of the success callback
DownloadURLRejects(i) ==
    LET u == uploads[i]
        error == [message |-> "storage/object-not-found"]
    IN  /\ u.phase = "urlLookup"
        /\ uploads' = [uploads EXCEPT ![i].phase = "done", ![i].sent = 0,
                                      ![i].terminal = Append(@, "onError"),
                                      ![i].log = @ \o recorded(u.origin, <<logError(error)>>)]
        /\ IF u.origin = "form"
           THEN /\ form' = formOnError(form, error)
                /\ timers' = [timers EXCEPT !.hide = @ + 1]
                /\ handleUploadError(error)
           ELSE UNCHANGED <<form, timers, banner, images, gridElement>>
        /\ UNCHANGED <<envVars, call, pc, isLoading, uploadFormElement, refreshes, fetches, store, now>>

UploadIds == 1..Len(uploads)

ProgressValues == UNION {ProgressPoints(f.size) : f \in Files}

\* the store's events for the running uploads
StoreUploadEvent ==
    \/ \E i \in UploadIds, b \in ProgressValues : UploadProgress(i, b)
    \/ \E i \in UploadIds, code \in ErrorCodes : UploadFails(i, code)
    \/ \E i \in UploadIds : UploadSucceeds(i)
    \/ \E i \in UploadIds, throws \in BOOLEAN : DownloadURLResolves(i, throws)
    \/ \E i \in UploadIds : DownloadURLRejects(i)

(* uploadFile on its own: called directly, with an initialised storage *)
InitUploader == Init /\ storage /\ isFirebaseConfigured(config) /\ store = <<>>

NextUploader ==
    \/ \E fileArg \in {<<>>} \cup {<<f>> : f \in Files} : UploadFileDirect(fileArg)
    \/ StoreUploadEvent

SpecUploader == InitUploader /\ [][NextUploader]_vars


(* ------------------------- uploadForm.js: events ---------------------- *)
\* the 'change' listener of the file input; fileList is the input's FileList
changeListener(f, fileList) ==
    IF fileList = <<>>
    THEN [f EXCEPT !.files = fileList, !.uploadButtonDisabled = TRUE,
                   !.progressText = [lit |-> "No file selected"]]
    ELSE IF validateImageFile(fileList[1]).valid
    THEN [f EXCEPT !.files = fileList, !.uploadButtonDisabled = FALSE,
                   !.progressText = [ready |-> fileList[1].name],
                   !.textColor = "text"]
    ELSE [f EXCEPT !.files = fileList, !.uploadButtonDisabled = TRUE,
                   !.progressText = [error |-> validateImageFile(fileList[1]).error],
                   !.textColor = "error"]

\* the user picks files in the file input, which fires 'change'
ChangeFile(fileList) ==
    /\ uploadFormElement
    /\ ~form.fileInputDisabled
    /\ form' = changeListener(form, fileList)
    /\ UNCHANGED <<appVars, envVars, call, fetches, store, now, timers, uploads>>

\* 'click' on the upload button
ClickUpload ==
    /\ uploadFormElement
    /\ ~form.uploadButtonDisabled
    /\ Len(uploads) < MaxUploads
    /\ IF form.files = <<>>
       THEN UNCHANGED <<form, timers, uploads, now, banner>>
       ELSE IF ~validateImageFile(form.files[1]).valid
       THEN /\ form' = [form EXCEPT
                          !.progressText = [error |-> validateImageFile(form.files[1]).error],
                          !.textColor = "error"]
            /\ UNCHANGED <<timers, uploads, now, banner>>
       ELSE IF ~storage
       THEN \* ref(storage, ...) throws inside uploadFile: the catch calls onError
            LET error == [message |-> "storage is undefined"]
            IN  /\ form' = formOnError(clickDisables(form), error)
                /\ timers' = [timers EXCEPT !.hide = @ + 1]
                /\ banner' = showStatusMessage(banner, [uploadFailed |-> error.message], "error",
                                 defaultDuration)
                /\ uploads' = Append(uploads, endedUpload("form", TRUE, form.files[1], error))
                /\ UNCHANGED now
       ELSE /\ form' = clickDisables(form)
            /\ uploads' = Append(uploads, newUpload("form", form.files[1], now + 1))
            /\ now' = now + 1
            /\ UNCHANGED <<timers, banner>>
    /\ UNCHANGED <<envVars, call, pc, images, isLoading, gridElement, uploadFormElement,
                   refreshes, fetches, store>>

\* the 3000 ms timer of onError fires
TimerHide ==
    /\ timers.hide > 0
    /\ timers' = [timers EXCEPT !.hide = @ - 1]
    /\ form' = formHide(form)
    /\ UNCHANGED <<appVars, envVars, call, fetches, store, now, uploads>>

\* a reset timer that also reloads the gallery
TimerResetReloads ==
    /\ timers.reset > 0
    /\ timers' = [timers EXCEPT !.reset = @ - 1]
    /\ form' = formReset(form)
    /\ isLoading' = TRUE
    /\ fetches' = Append(fetches, [caller |-> "refresh", phase |-> "listAll",
                                   listing |-> <<>>, ok |-> FALSE])
    /\ UNCHANGED <<envVars, call, pc, images, gridElement, uploadFormElement, banner,
                   refreshes, store, now, uploads>>

\* the 2000 ms timer of onComplete fires
TimerReset ==
    /\ timers.reset > 0
    /\ timers' = [timers EXCEPT !.reset = @ - 1]
    /\ form' = formReset(form)
    /\ UNCHANGED <<appVars, envVars, call, fetches, store, now, uploads>>


(* ------------------------- app.js: coordinator ------------------------ *)
\* One entry of `fetches` per loadAndDisplayImages call: caller is "init" or
\* "refresh"; phase is "listAll" (awaiting listAll), "urls" (awaiting the
\* getDownloadURL calls of `listing`, a local of listAllImages) or "done"; ok
\* tells how it ended. A call that failed on a URL lookup keeps the listing it
\* had received.
newFetch(caller) == [caller |-> caller, phase |-> "listAll", listing |-> <<>>, ok |-> FALSE]


\* a load that merges the listing into the list it held
mergedImages(prev, listed) == prev \o listed

\* appState.images after a successful listAllImages
loadedImages(prev, listed) == listed

\* a catch block that empties the list
clearedImages(prev) == <<>>

\* appState.images after the catch block of loadAndDisplayImages
failedImages(prev) == prev

\* the grid after the success branch of loadAndDisplayImages
gridAfterLoad(g, listed) ==
    IF ~g.exists THEN Grid(createImageGrid([images |-> listed, isLoading |-> FALSE]))
    ELSE Grid(updateImageGrid(g.children, listed))

\* the grid after the catch block of loadAndDisplayImages
gridAfterFailure(g) == IF ~g.exists THEN Grid(createImageGrid([images |-> <<>>, isLoading |-> FALSE])) ELSE g

\* what the caller does once loadAndDisplayImages has returned
callerContinues(caller, b) ==
    IF caller = "refresh" THEN showStatusMessage(b, [lit |-> "Gallery refreshed"], "success", 2000)
    ELSE b

\* loadAndDisplayImages after `await listAllImages()` resolved with `listed`
loadSucceeded(caller, listed) ==
    /\ images' = loadedImages(images, listed)
    /\ isLoading' = FALSE
    /\ gridElement' = gridAfterLoad(gridElement, listed)
    /\ banner' = callerContinues(caller,
                    IF Len(listed) > 0
                    THEN showStatusMessage(banner, [loaded |-> Len(listed)], "success",
                                           defaultDuration)
                    ELSE banner)
    /\ pc' = IF caller = "init" THEN "done" ELSE pc

\* loadAndDisplayImages after `await listAllImages()` rejected
loadFailed(caller) ==
    /\ images' = failedImages(images)
    /\ isLoading' = FALSE
    /\ gridElement' = gridAfterFailure(gridElement)
    /\ banner' = callerContinues(caller,
                    showStatusMessage(banner, [lit |-> "Failed to load images. Please check your Firebase configuration."], "error",
                                      defaultDuration))
    /\ pc' = IF caller = "init" THEN "done" ELSE pc

\* loadAndDisplayImages up to `await listAllImages()`. Without a storage instance
\* ref() throws inside listAllImages and the catch block runs before any other event.
loadAndDisplayImages(caller) ==
    IF storage
    THEN /\ isLoading' = TRUE
         /\ fetches' = Append(fetches, newFetch(caller))
         /\ UNCHANGED <<images, gridElement>>
    ELSE /\ loadFailed(caller)
         /\ fetches' = Append(fetches, [newFetch(caller) EXCEPT !.phase = "done"])

\* DOMContentLoaded: initializeApp
DOMContentLoaded ==
    /\ pc = "boot"
    /\ IF ~isFirebaseConfigured(config)
       THEN /\ pc' = "unconfigured"
            /\ UNCHANGED <<images, isLoading, gridElement, uploadFormElement, banner, fetches>>
       ELSE /\ uploadFormElement' = TRUE
            /\ loadAndDisplayImages("init")
            /\ IF storage THEN pc' = "awaitLoad" /\ UNCHANGED banner ELSE TRUE
    /\ UNCHANGED <<envVars, call, refreshes, store, now, form, timers, uploads>>

\* window.refreshGallery()
RefreshGallery ==
    /\ refreshes < MaxRefresh
    /\ refreshes' = refreshes + 1
    /\ loadAndDisplayImages("refresh")
    /\ IF storage
       THEN /\ banner' = showStatusMessage(banner, [lit |-> "Refreshing gallery..."], "info", 2000)
            /\ UNCHANGED pc
       ELSE TRUE
    /\ UNCHANGED <<envVars, call, uploadFormElement, store, now, form, timers, uploads>>

FetchIds == 1..Len(fetches)

\* listAll resolves with the objects the store holds now
ListAllResolves(i) ==
    /\ fetches[i].phase = "listAll"
    /\ IF store = <<>>
       THEN /\ fetches' = [fetches EXCEPT ![i].phase = "done", ![i].ok = TRUE]
            /\ loadSucceeded(fetches[i].caller, <<>>)
       ELSE /\ fetches' = [fetches EXCEPT ![i].phase = "urls", ![i].listing = store]
            /\ UNCHANGED <<pc, images, isLoading, gridElement, banner>>
    /\ UNCHANGED <<envVars, call, uploadFormElement, refreshes, store, now, form, timers, uploads>>

\* listAll rejects
ListAllRejects(i) ==
    /\ fetches[i].phase = "listAll"
    /\ fetches' = [fetches EXCEPT ![i].phase = "done"]
    /\ loadFailed(fetches[i].caller)
    /\ UNCHANGED <<envVars, call, uploadFormElement, refreshes, store, now, form, timers, uploads>>

\* every getDownloadURL of the listing has resolved: Promise.all resolves
UrlsResolve(i) ==
    /\ fetches[i].phase = "urls"
    /\ fetches' = [fetches EXCEPT ![i].phase = "done", ![i].ok = TRUE, ![i].listing = <<>>]
    /\ loadSucceeded(fetches[i].caller,
                     [k \in 1..Len(fetches[i].listing) |-> listRecord(fetches[i].listing[k])])
    /\ UNCHANGED <<envVars, call, uploadFormElement, refreshes, store, now, form, timers, uploads>>

\* a fetch that delivers the records whose lookups resolved before the rejection
UrlsRejectDeliversPartial(i) ==
    /\ fetches[i].phase = "urls"
    /\ fetches' = [fetches EXCEPT ![i].phase = "done"]
    /\ loadSucceeded(fetches[i].caller,
                     [k \in 1..(Len(fetches[i].listing) - 1) |-> listRecord(fetches[i].listing[k])])
    /\ UNCHANGED <<envVars, call, uploadFormElement, refreshes, store, now, form, timers, uploads>>

\* one getDownloadURL of the listing rejects: Promise.all rejects; the listing the
\* call had received stays recorded in the entry
UrlsReject(i) ==
    /\ fetches[i].phase = "urls"
    /\ fetches' = [fetches EXCEPT ![i].phase = "done"]
    /\ loadFailed(fetches[i].caller)
    /\ UNCHANGED <<envVars, call, uploadFormElement, refreshes, store, now, form, timers, uploads>>

\* the hide timer of showStatusMessage fires
StatusHideTimeout ==
    /\ \E t \in banner.timeouts : banner' = hideStatusMessage(banner, t)
    /\ UNCHANGED <<pc, images, isLoading, gridElement, uploadFormElement, refreshes,
                   formVars, envVars, call, fetches, store, now, uploads>>

\* the messages of the window listeners
windowErrorMessage(type) ==
    IF type = "error"
    THEN [lit |-> "An unexpected error occurred. Please refresh the page."]
    ELSE [lit |-> "An error occurred. Please check the console for details."]

\* 'error' or 'unhandledrejection' on window: some script of the page failed
WindowError(type) ==
    /\ banner' = showStatusMessage(banner, windowErrorMessage(type), "error", defaultDuration)
    /\ UNCHANGED <<pc, images, isLoading, gridElement, uploadFormElement, refreshes,
                   formVars, envVars, call, fetches, store, now, uploads>>

\* imgs of one grid whose download the browser settles, with 'load' or 'error'
MaxImgEvents == 1

\* cards of a grid whose img has fired 'load' or 'error'
SettledCards(g) ==
    IF g.exists
    THEN {k \in 1..Len(g.children) :
             g.children[k].kind = "image-card" /\ g.children[k].imgClass # "loading"}
    ELSE {}

\* the positions of the nodes of the grid
GridNodes == IF gridElement.exists THEN 1..Len(gridElement.children) ELSE {}

\* the img of the k-th node of the grid is still downloading
ImgSettles(k) ==
    /\ k \in GridNodes
    /\ gridElement.children[k].kind = "image-card"
    /\ gridElement.children[k].imgClass = "loading"
    /\ Cardinality(SettledCards(gridElement)) < MaxImgEvents

\* 'load' on the img of the k-th node of the grid
ImgLoad(k) ==
    /\ ImgSettles(k)
    /\ gridElement' = [gridElement EXCEPT !.children[k].imgClass = "loaded"]
    /\ UNCHANGED <<pc, images, isLoading, uploadFormElement, banner, refreshes,
                   formVars, envVars, call, fetches, store, now, uploads>>

\* 'error' on the img of the k-th node of the grid: its URL did not load
ImgError(k) ==
    /\ ImgSettles(k)
    /\ gridElement' = [gridElement EXCEPT !.children[k].imgClass = "error",
                                          !.children[k].alt = failedToLoad]
    /\ UNCHANGED <<pc, images, isLoading, uploadFormElement, banner, refreshes,
                   formVars, envVars, call, fetches, store, now, uploads>>

Next ==
    \/ DOMContentLoaded
    \/ RefreshGallery
    \/ \E i \in FetchIds : ListAllResolves(i)
    \/ \E i \in FetchIds : ListAllRejects(i)
    \/ \E i \in FetchIds : UrlsResolve(i)
    \/ \E i \in FetchIds : UrlsReject(i)
    \/ \E fileList \in {<<>>} \cup {<<f>> : f \in FormFiles} : ChangeFile(fileList)
    \/ ClickUpload
    \/ TimerHide
    \/ TimerReset
    \/ StoreUploadEvent
    \/ StatusHideTimeout
    \/ \E type \in {"error", "unhandledrejection"} : WindowError(type)
    \/ \E k \in GridNodes : ImgLoad(k)
    \/ \E k \in GridNodes : ImgError(k)

Spec == Init /\ [][Next]_vars


(* ---------------------- helpers called on their own ------------------- *)
\* One helper is called on one input. `call` names the helper, holds its input
\* under a field of the helper's own, counts the calls made (n) and holds the
\* result of the last one.

\* calls made of one helper on one input
MaxCalls == 2
\* length of the names and timestamp strings the helpers are called on
MaxNameLen == 3

\* MIME types and sizes validateImageFile is called on
ValidatorTypes == allowedTypes \cup {"text/plain", "image/svg+xml", "application/pdf", ""}

ValidatorSizes == {0, maxSize - 1, maxSize, maxSize + 1}

ValidatorFiles == [name : {<<"a">>}, type : ValidatorTypes, size : ValidatorSizes]

\* the non-empty strings over `chars` of at most MaxNameLen characters
StringsOver(chars) == UNION {[1..n -> chars] : n \in 1..MaxNameLen}

\* file names and object names: letters, digits, underscores
HelperNames == StringsOver({"a", "1", "_"})

\* values of Date.now()
HelperTimestamps == {1, 10, 907, 1700000000}

\* timestamps a card is built with: missing, empty, numbers, strings
TimestampInputs ==
    {undefined, [str |-> <<>>], [int |-> 0], [int |-> 907]}
        \cup {[str |-> t] : t \in StringsOver({"1", "a", " ", "\t", " ", "U+2003", "-"})}

\* configurations with any of the six fields left as in the template
HelperConfigs ==
    [apiKey : {configTemplate.apiKey, <<"y", "o", "u", "r", "-", "a", "p", "i", "-", "k", "e", "y", "-", "h", "e", "r", "e">>,
               <<"y", "o", "u", "r", "-", "k", "e", "y">>, <<"m", "y", "-", "y", "o", "u", "r", "-", "k", "e", "y">>,
               <<"y", "o", "u", "r", "-">>, <<"y", "o", "u", "r">>},
     authDomain : {configTemplate.authDomain,
                   <<"y", "o", "u", "r", "-", "p", "r", "o", "j", "e", "c", "t", "-", "i", "d", ".", "f", "i", "r", "e", "b", "a", "s", "e", "a", "p", "p", ".", "c", "o", "m">>},
     projectId : {configTemplate.projectId, <<"y", "o", "u", "r", "-", "p", "r", "o", "j", "e", "c", "t", "-", "i", "d">>},
     storageBucket : {configTemplate.storageBucket,
                      <<"y", "o", "u", "r", "-", "p", "r", "o", "j", "e", "c", "t", "-", "i", "d", ".", "a", "p", "p", "s", "p", "o", "t", ".", "c", "o", "m">>},
     messagingSenderId : {configTemplate.messagingSenderId,
                          <<"y", "o", "u", "r", "-", "m", "e", "s", "s", "a", "g", "i", "n", "g", "-", "s", "e", "n", "d", "e", "r", "-", "i", "d">>},
     appId : {configTemplate.appId, <<"y", "o", "u", "r", "-", "a", "p", "p", "-", "i", "d">>}]

HelperCalls ==
    {[fn |-> "validateImageFile", file |-> f, n |-> 0] : f \in ValidatorFiles}
        \cup {[fn |-> "isFirebaseConfigured", firebaseConfig |-> c, n |-> 0] : c \in HelperConfigs}
        \cup {[fn |-> "formatFileName", filename |-> f, n |-> 0] : f \in HelperNames}
        \cup {[fn |-> "formatTimestamp", timestamp |-> t, n |-> 0] : t \in TimestampInputs}

InitHelpers ==
    /\ InitPage /\ storage /\ isFirebaseConfigured(config) /\ store = <<>>
    /\ call \in HelperCalls

\* the step of a call: the input is kept, the result replaced
Called(fn) ==
    /\ call.fn = fn
    /\ call.n < MaxCalls
    /\ UNCHANGED <<appVars, formVars, envVars, fetches, store, now, uploads>>

CallValidateImageFile ==
    /\ Called("validateImageFile")
    /\ call' = [fn |-> call.fn, file |-> call.file, n |-> call.n + 1,
                result |-> validateImageFile(call.file)]

CallIsFirebaseConfigured ==
    /\ Called("isFirebaseConfigured")
    /\ call' = [fn |-> call.fn, firebaseConfig |-> call.firebaseConfig, n |-> call.n + 1,
                result |-> isFirebaseConfigured(call.firebaseConfig)]

CallFormatFileName ==
    /\ Called("formatFileName")
    /\ call' = [fn |-> call.fn, filename |-> call.filename, n |-> call.n + 1,
                result |-> formatFileName(call.filename)]

CallFormatTimestamp ==
    /\ Called("formatTimestamp")
    /\ call' = [fn |-> call.fn, timestamp |-> call.timestamp, n |-> call.n + 1,
                result |-> formatTimestamp(call.timestamp)]

NextHelpers ==
    \/ CallValidateImageFile
    \/ CallIsFirebaseConfigured
    \/ CallFormatFileName
    \/ CallFormatTimestamp

SpecHelpers == InitHelpers /\ [][NextHelpers]_vars


(* ----------------------- imageGrid called on its own ------------------ *)
\* image cards a grid is filled with by addImageToGrid
MaxCards == 5

\* records the grid is given
GridRecords == {listRecord(<<"1", "_", "a">>), listRecord(<<"2", "_", "b">>)}

GridImageLists == {<<>>} \cup UNION {[1..n -> GridRecords] : n \in 1..2}

InitGrid ==
    /\ InitPage /\ storage /\ isFirebaseConfigured(config) /\ store = <<>>
    /\ call = noCall

\* what a call of the grid component leaves alone
gridFrame ==
    UNCHANGED <<pc, images, isLoading, uploadFormElement, banner, refreshes, formVars,
                envVars, fetches, store, now, uploads, call>>

GridCreate(options) ==
    /\ ~gridElement.exists
    /\ gridElement' = Grid(createImageGrid(options))
    /\ gridFrame

GridUpdate(imgs) ==
    /\ gridElement.exists
    /\ gridElement' = Grid(updateImageGrid(gridElement.children, imgs))
    /\ gridFrame

GridAdd(imageData) ==
    /\ gridElement.exists
    /\ Len(SelectSeq(gridElement.children, LAMBDA n : n.kind = "image-card")) < MaxCards
    /\ gridElement' = Grid(addImageToGrid(gridElement.children, imageData))
    /\ gridFrame

NextGrid ==
    \/ \E options \in [images : GridImageLists, isLoading : BOOLEAN] : GridCreate(options)
    \/ \E imgs \in GridImageLists : GridUpdate(imgs)
    \/ \E imageData \in GridRecords : GridAdd(imageData)
    \/ \E k \in GridNodes : ImgLoad(k)
    \/ \E k \in GridNodes : ImgError(k)

SpecGrid == InitGrid /\ [][NextGrid]_vars


(* -------------------- listAllImages called on its own ----------------- *)
\* `call` holds one call of listAllImages: phase is "idle", "listAll" (awaiting
\* listAll), "urls" (awaiting Promise.all), "resolved" or "rejected"; items is
\* result.items, urls[k] tells whether the getDownloadURL of items[k] has resolved,
\* and arrivals lists the positions in the order their lookups resolved.

\* objects a listing holds
MaxListing == 3

\* object names the store lists; their timestamps do not follow the listing order
ListedNames == {<<"2", "_", "b">>, <<"1", "_", "a">>, <<"3", "_", "c">>}

\* listings of distinct objects
Listings ==
    {l \in UNION {[1..n -> ListedNames] : n \in 0..MaxListing} :
        \A j, k \in 1..Len(l) : j # k => l[j] # l[k]}

InitListing ==
    /\ InitPage /\ storage /\ isFirebaseConfigured(config) /\ store = <<>>
    /\ call = [fn |-> "listAllImages", phase |-> "idle"]

listingFrame ==
    UNCHANGED <<appVars, formVars, envVars, fetches, store, now, uploads>>

\* a Promise.all that hands the values over in the order they arrived
arrivalOrderResult(items, arrivals) ==
    [j \in 1..Len(arrivals) |-> listRecord(items[arrivals[j]])]

\* the value of `await Promise.all(imagePromises)`: one record per item, by position
promiseAllResult(items, arrivals) ==
    [k \in 1..Len(items) |-> listRecord(items[k])]

\* listAllImages() up to `await listAll(imagesRef)`
ListAllImagesCalled(listing) ==
    /\ call.fn = "listAllImages" /\ call.phase = "idle"
    /\ store' = listing
    /\ call' = [fn |-> "listAllImages", phase |-> "listAll"]
    /\ UNCHANGED <<appVars, formVars, envVars, fetches, now, uploads>>

\* listAll resolves: the lookups of all items start; Promise.all([]) resolves at once
ListingResolves ==
    /\ call.fn = "listAllImages" /\ call.phase = "listAll"
    /\ call' = IF store = <<>>
               THEN [fn |-> "listAllImages", phase |-> "resolved", items |-> store,
                     urls |-> <<>>, arrivals |-> <<>>,
                     result |-> promiseAllResult(store, <<>>)]
               ELSE [fn |-> "listAllImages", phase |-> "urls", items |-> store,
                     urls |-> [k \in 1..Len(store) |-> FALSE], arrivals |-> <<>>]
    /\ listingFrame

\* listAll rejects: the catch block rethrows
ListingRejects ==
    /\ call.fn = "listAllImages" /\ call.phase = "listAll"
    /\ call' = [fn |-> "listAllImages", phase |-> "rejected"]
    /\ listingFrame

\* the getDownloadURL of items[k] resolves; the last one resolves Promise.all
LookupResolves(k) ==
    /\ call.fn = "listAllImages" /\ call.phase = "urls"
    /\ k \in 1..Len(call.items) /\ ~call.urls[k]
    /\ LET urls == [call.urls EXCEPT ![k] = TRUE]
           arrivals == Append(call.arrivals, k)
       IN  call' = IF \A j \in 1..Len(urls) : urls[j]
                   THEN [fn |-> "listAllImages", phase |-> "resolved", items |-> call.items,
                         urls |-> urls, arrivals |-> arrivals,
                         result |-> promiseAllResult(call.items, arrivals)]
                   ELSE [call EXCEPT !.urls = urls, !.arrivals = arrivals]
    /\ listingFrame

\* the getDownloadURL of items[k] rejects: Promise.all rejects, the catch rethrows
LookupRejects(k) ==
    /\ call.fn = "listAllImages" /\ call.phase = "urls"
    /\ k \in 1..Len(call.items) /\ ~call.urls[k]
    /\ call' = [fn |-> "listAllImages", phase |-> "rejected", items |-> call.items,
                urls |-> call.urls, arrivals |-> call.arrivals]
    /\ listingFrame

NextListing ==
    \/ \E listing \in Listings : ListAllImagesCalled(listing)
    \/ ListingResolves
    \/ ListingRejects
    \/ \E k \in 1..MaxListing : LookupResolves(k)
    \/ \E k \in 1..MaxListing : LookupRejects(k)

SpecListing == InitListing /\ [][NextListing]_vars


(* ------------------ createDragDropUploadForm on its own --------------- *)
\* The form createDragDropUploadForm builds, given the app's callbacks; app.js
\* itself builds its form with createUploadForm, so no page load and no list fetch
\* take part.
InitDragDrop ==
    /\ InitPage /\ storage /\ isFirebaseConfigured(config) /\ store = <<>>
    /\ call = noCall

\* createDragDropUploadForm(options), appended to the page
CreateDragDropUploadForm ==
    /\ ~uploadFormElement
    /\ uploadFormElement' = TRUE
    /\ form' = initialForm
    /\ UNCHANGED <<pc, images, isLoading, gridElement, banner, refreshes, envVars, call,
                   fetches, store, now, timers, uploads>>

\* 'drop' on the file input wrapper: the dropped files are assigned to the input
\* and a 'change' event is dispatched on it
Drop(fileList) ==
    /\ uploadFormElement
    /\ IF Len(fileList) > 0
       THEN form' = changeListener(form, fileList)
       ELSE UNCHANGED form
    /\ UNCHANGED <<appVars, envVars, call, fetches, store, now, timers, uploads>>

NextDragDrop ==
    \/ CreateDragDropUploadForm
    \/ \E fileList \in {<<>>} \cup {<<f>> : f \in FormFiles} : Drop(fileList)
    \/ \E fileList \in {<<>>} \cup {<<f>> : f \in FormFiles} : ChangeFile(fileList)
    \/ ClickUpload
    \/ TimerHide
    \/ TimerReset
    \/ StoreUploadEvent
    \/ StatusHideTimeout

SpecDragDrop == InitDragDrop /\ [][NextDragDrop]_vars


(* ------------------ showStatusMessage called on its own --------------- *)
\* `banner` is the element with its pending timers; `call` holds the clock (in
\* seconds), the second at which each pending timer was set, the number of
\* messages shown, and the time and duration of the last one.

\* messages shown
MaxMessages == 3
\* seconds the clock runs
MaxClock == 8

\* the messages of app.js with their durations: 2000 ms and the default 5000 ms
StatusMessages ==
    {[message |-> [lit |-> "Refreshing gallery..."], type |-> "info", duration |-> 2000],
     [message |-> [lit |-> "Gallery refreshed"], type |-> "success", duration |-> 2000],
     [message |-> [lit |-> "Image uploaded successfully!"], type |-> "success",
      duration |-> defaultDuration]}

InitStatus ==
    /\ InitPage /\ storage /\ isFirebaseConfigured(config) /\ store = <<>>
    /\ call = [fn |-> "showStatusMessage", clock |-> 0, setAt |-> <<>>,
               count |-> 0, shownAt |-> 0, duration |-> 0]

statusFrame ==
    UNCHANGED <<pc, images, isLoading, gridElement, uploadFormElement, refreshes, formVars,
                envVars, fetches, store, now, uploads>>

\* showStatusMessage(message, type, duration)
ShowStatusMessage(m) ==
    /\ call.fn = "showStatusMessage"
    /\ call.count < MaxMessages
    /\ banner' = showStatusMessage(banner, m.message, m.type, m.duration)
    /\ call' = [call EXCEPT
                  !.setAt = [id \in {t.id : t \in banner'.timeouts} |->
                               IF id = banner'.hideTimeout THEN call.clock ELSE @[id]],
                  !.count = @ + 1,
                  !.shownAt = call.clock,
                  !.duration = m.duration]
    /\ statusFrame

\* a pending timer whose delay has elapsed fires: the element loses 'show'
HideTimeoutFires(t) ==
    /\ call.fn = "showStatusMessage"
    /\ t \in banner.timeouts
    /\ 1000 * call.setAt[t.id] + t.delay <= 1000 * call.clock
    /\ banner' = hideStatusMessage(banner, t)
    /\ call' = [call EXCEPT !.setAt = [id \in {u.id : u \in banner'.timeouts} |-> @[id]]]
    /\ statusFrame

\* one second passes
Tick ==
    /\ call.fn = "showStatusMessage"
    /\ call.clock < MaxClock
    /\ call' = [call EXCEPT !.clock = @ + 1]
    /\ UNCHANGED banner
    /\ statusFrame

NextStatus ==
    \/ \E m \in StatusMessages : ShowStatusMessage(m)
    \/ \E t \in banner.timeouts : HideTimeoutFires(t)
    \/ Tick

SpecStatus == InitStatus /\ [][NextStatus]_vars

(* ---------------------- createUploadForm on its own ------------------- *)
\* The form createUploadForm builds for a caller whose onUploadSuccess may throw;
\* the storage instance may be missing, and then uploadFile throws synchronously.
InitForm ==
    /\ InitPage /\ isFirebaseConfigured(config) /\ store = <<>>
    /\ call = noCall

\* createUploadForm(options), appended to the page
CreateUploadForm ==
    /\ ~uploadFormElement
    /\ uploadFormElement' = TRUE
    /\ form' = initialForm
    /\ UNCHANGED <<pc, images, isLoading, gridElement, banner, refreshes, envVars, call,
                   fetches, store, now, timers, uploads>>

\* getDownloadURL resolves and the parent's onUploadSuccess throws inside the
\* form's onComplete: no reset timer is set, and the catch of uploadFile's success
\* callback calls the form's onError
DownloadURLResolvesParentThrows(i) ==
    LET u == uploads[i]
        error == [message |-> "onUploadSuccess threw"]
    IN  /\ u.phase = "urlLookup"
        /\ u.origin = "form"
        /\ uploads' = [uploads EXCEPT ![i].phase = "done", ![i].sent = 0,
                                      ![i].terminal = @ \o <<"onComplete", "onError">>]
        /\ form' = formOnError(formOnComplete(form), error)
        /\ timers' = [timers EXCEPT !.hide = @ + 1]
        /\ handleUploadError(error)
        /\ UNCHANGED <<envVars, call, pc, isLoading, uploadFormElement, refreshes, fetches, store, now>>

\* the store ends a running upload
UploadEnds == \E i \in UploadIds : UploadSucceeds(i) \/ \E code \in ErrorCodes : UploadFails(i, code)

\* the URL lookup of a stored upload settles
DownloadURLSettles ==
    \E i \in UploadIds :
        \/ DownloadURLResolves(i, FALSE)
        \/ DownloadURLResolvesParentThrows(i)
        \/ DownloadURLRejects(i)

NextForm ==
    \/ CreateUploadForm
    \/ \E fileList \in {<<>>} \cup {<<f>> : f \in FormFiles} : ChangeFile(fileList)
    \/ ClickUpload
    \/ \E i \in UploadIds, b \in ProgressValues : UploadProgress(i, b)
    \/ UploadEnds
    \/ DownloadURLSettles
    \/ TimerHide
    \/ TimerReset
    \/ StatusHideTimeout

\* the store answers every upload and every URL lookup, and pending timers fire
SpecForm ==
    /\ InitForm /\ [][NextForm]_vars
    /\ WF_vars(UploadEnds)
    /\ WF_vars(DownloadURLSettles)
    /\ WF_vars(TimerHide)
    /\ WF_vars(TimerReset)


(* -------------- an uploaded object listed back by the gallery --------- *)
\* A script of the page calls uploadFile with a file of any name, at any time of
\* the clock, and window.refreshGallery() loads the gallery: the object is stored
\* under the key uploadFile built, listAllImages lists it and createImageGrid
\* builds its card. The document is still loading, so no form exists.

\* the files uploaded: accepted images named by every name of HelperNames
RoundTripFiles == {[name |-> f, type |-> "image/png", size |-> 8] : f \in HelperNames}

InitRoundTrip ==
    /\ config \in {cfg \in PageConfigs : isFirebaseConfigured(cfg)}
    /\ storage = TRUE
    /\ pc = "boot"
    /\ images = <<>>
    /\ isLoading = FALSE
    /\ gridElement = noGrid
    /\ uploadFormElement = FALSE
    /\ banner = [message |-> [lit |-> ""], type |-> "", show |-> FALSE,
                 timeouts |-> {}, hideTimeout |-> 0]
    /\ refreshes = 0
    /\ fetches = <<>>
    /\ store = <<>>
    /\ now \in {t - 1 : t \in HelperTimestamps}
    /\ form = initialForm
    /\ timers = [hide |-> 0, reset |-> 0]
    /\ uploads = <<>>
    /\ call = noCall

NextRoundTrip ==
    \/ \E fileArg \in {<<>>} \cup {<<f>> : f \in RoundTripFiles} : UploadFileDirect(fileArg)
    \/ StoreUploadEvent
    \/ RefreshGallery
    \/ \E i \in FetchIds : ListAllResolves(i)
    \/ \E i \in FetchIds : ListAllRejects(i)
    \/ \E i \in FetchIds : UrlsResolve(i)
    \/ \E i \in FetchIds : UrlsReject(i)
    \/ StatusHideTimeout
    \/ \E type \in {"error", "unhandledrejection"} : WindowError(type)
    \/ \E k \in GridNodes : ImgLoad(k)
    \/ \E k \in GridNodes : ImgError(k)

SpecRoundTrip == InitRoundTrip /\ [][NextRoundTrip]_vars


(* ============================== claims ================================ *)
InFlight == {i \in UploadIds : uploads[i].terminal = <<>>}

PendingFetches == {i \in FetchIds : fetches[i].phase # "done"}

\* the image cards of a grid, in order
CardsOf(children) == SelectSeq(children, LAMBDA n : n.kind = "image-card")

\* C1: every uploadFile call with a file invokes exactly one terminal callback
\* (onError or onComplete, once), and no onProgress call follows it, whatever the
\* store answers and whatever the callbacks do.
C1_ExactlyOneTerminalCallback ==
    \A i \in UploadIds :
        LET u == uploads[i]
            ends == {k \in 1..Len(u.log) : u.log[k].cb \in {"onError", "onComplete"}}
        IN  u.hasFile =>
              /\ Cardinality(ends) <= 1
              /\ (u.phase = "done" => Cardinality(ends) = 1)
              /\ \A k \in ends : \A j \in (k + 1)..Len(u.log) : u.log[j].cb # "onProgress"

\* C2: while an upload started from the form has had no terminal callback, the
\* upload button and the file input are disabled, and at most one such upload is
\* in flight.
C2_ControlsDisabledWhileInFlight ==
    /\ Cardinality(InFlight) <= 1
    /\ InFlight # {} => form.fileInputDisabled /\ form.uploadButtonDisabled

\* a second upload is in flight after a first one has ended
C2_Witness ==
    \E i, j \in UploadIds :
        /\ i < j
        /\ uploads[i].terminal # <<>>
        /\ uploads[j].terminal = <<>>
        /\ uploads[j].phase = "urlLookup"

\* C3: at most one list fetch is in flight, and appState.isLoading is true exactly
\* while one is.
C3_LoadingIffOneFetch ==
    /\ Cardinality(PendingFetches) <= 1
    /\ isLoading <=> PendingFetches # {}

\* a step in which upload i of the form ends with onComplete
UploadCompletes(i) ==
    /\ uploads[i].origin = "form"
    /\ uploads[i].terminal = <<>>
    /\ uploads'[i].terminal = <<"onComplete">>

\* a step in which list fetch i ends with success
FetchSucceeds(i) ==
    /\ fetches[i].phase # "done"
    /\ fetches'[i].phase = "done"
    /\ fetches'[i].ok

\* the listing fetch i got from the store, seen from the state before it ends
ListingOf(i) == IF fetches[i].phase = "urls" THEN fetches[i].listing ELSE store

\* C5: a successful list fetch replaces: appState.images is the listing L
\* afterwards, whatever it held, and the grid shows exactly the cards of L.
C5_FetchReplaces ==
    [][\A i \in FetchIds :
          FetchSucceeds(i) =>
            LET L == [k \in 1..Len(ListingOf(i)) |-> listRecord(ListingOf(i)[k])]
            IN  /\ images' = L
                /\ gridElement' =
                     Grid(IF L = <<>> THEN <<emptyStateNode>>
                          ELSE [k \in 1..Len(L) |-> createImageCard(L[k])])
      ]_vars

\* a refresh has replaced a list that held a prepended upload by a listing of two
C5_Witness ==
    /\ \E i \in FetchIds : fetches[i].caller = "refresh" /\ fetches[i].ok
    /\ \E i \in UploadIds : uploads[i].terminal = <<"onComplete">>
    /\ Len(images) = 2
    /\ \A k \in 1..2 : images[k] = listRecord(store[k])
    /\ gridElement.exists
    /\ gridElement.children = [k \in 1..2 |-> createImageCard(images[k])]

\* C6: N progress events, then success and a resolved URL: onProgress N times in
\* order with the rounded percentages, then onComplete once, and never onError.
C6_ProgressThenComplete ==
    \A i \in UploadIds :
        LET u == uploads[i]
        IN  ( /\ u.origin = "direct"
              /\ u.phase = "done"
              /\ \E k \in 1..Len(u.terminal) : u.terminal[k] = "onComplete" )
            => u.log = [k \in 1..Len(u.events) |->
                           logProgress(roundProgress(u.events[k], u.file.size))]
                       \o <<logComplete(uploadRecord(u))>>

\* C7: uploadFile called with a file the validator rejects calls onError
\* synchronously with the validation reason and never calls the store's put.
C7_UploadRevalidates ==
    \A i \in UploadIds :
        LET u == uploads[i]
        IN  (u.hasFile /\ ~validateImageFile(u.file).valid)
            => /\ u.phase = "done"
               /\ u.log = <<logError([message |-> validateImageFile(u.file).error])>>
               /\ ~u.stored

\* C8: an upload call that ends with onComplete has created exactly one object in
\* the store, and one that ends with onError has created none.
C8_ObjectIffComplete ==
    \A i \in UploadIds :
        LET u == uploads[i]
        IN  (u.phase = "done" /\ u.terminal # <<>>) =>
              /\ u.terminal[Len(u.terminal)] = "onComplete" =>
                   /\ u.stored
                   /\ Cardinality({k \in 1..Len(store) : store[k] = u.filename}) = 1
              /\ u.terminal[Len(u.terminal)] = "onError" => ~u.stored

\* C9: once the configuration check has failed, no list fetch is issued, no form
\* and no grid are created, and appState.images and isLoading stay [] and false.
C9_UnconfiguredIsTerminal ==
    pc = "unconfigured" =>
        /\ fetches = <<>>
        /\ ~uploadFormElement
        /\ ~gridElement.exists
        /\ images = <<>>
        /\ ~isLoading

\* a step in which a list fetch ends with failure
FetchFails ==
    \E i \in 1..Len(fetches') :
        /\ fetches'[i].phase = "done"
        /\ ~fetches'[i].ok
        /\ i \in FetchIds => fetches[i].phase # "done"

\* C10 as stated: after a failed list fetch items = [] and loading = false.
C10_FailureEmptiesList == [][FetchFails => images' = <<>> /\ ~isLoading']_vars

\* C10 as amended: after a failed list fetch loading = false and items is the list
\* held before the failure.
C10_FailureKeepsList == [][FetchFails => images' = images /\ ~isLoading']_vars

\* a fetch has failed while the list holds records
C10_Witness ==
    /\ \E i \in FetchIds : fetches[i].phase = "done" /\ ~fetches[i].ok
    /\ PendingFetches = {}
    /\ images # <<>>
    /\ ~isLoading


\* C11: when the list fetch of a load or of a refresh fails, the status banner
\* shows a message of kind error once initializeApp or refreshGallery has finished.
C11_FailureShowsError == [][FetchFails => banner'.show /\ banner'.type = "error"]_vars

\* C12: a successful upload leaves isLoading alone and issues no list fetch; a list
\* fetch is started only by the startup load and by refreshGallery, one each, and
\* an upload only by a click on the upload button, one each.
C12_LocalInsertOnly ==
    [][/\ \A i \in UploadIds :
            UploadCompletes(i) => isLoading' = isLoading /\ fetches' = fetches
       /\ Len(fetches') # Len(fetches) =>
            /\ Len(fetches') = Len(fetches) + 1
            /\ DOMContentLoaded \/ RefreshGallery
       /\ Len(uploads') # Len(uploads) =>
            /\ Len(uploads') = Len(uploads) + 1
            /\ ClickUpload
      ]_vars

\* two uploads have ended, one of them with success, a reset timer has fired, and
\* the startup load is still the only fetch
C12_Witness ==
    /\ Len(uploads) = 2
    /\ InFlight = {}
    /\ \E i \in UploadIds : uploads[i].terminal = <<"onComplete">>
    /\ \E i \in UploadIds : uploads[i].terminal = <<"onError">>
    /\ timers = [hide |-> 0, reset |-> 0]
    /\ Len(fetches) = 1
    /\ PendingFetches = {}
    /\ ~isLoading

\* a step in which upload attempt i ends with onError
UploadErrors(i) ==
    /\ uploads'[i].terminal # <<>>
    /\ uploads'[i].terminal[Len(uploads'[i].terminal)] = "onError"
    /\ i \in UploadIds => uploads[i].terminal = <<>>

\* C13: an upload attempt that ends with onError changes neither appState.images
\* nor appState.isLoading at any of its steps, and when onError has run the file
\* input and the upload button are enabled again.
C13_FailedUploadMutatesNothing ==
    [][/\ (uploads' # uploads /\ ~\E i \in UploadIds : UploadCompletes(i)) =>
            images' = images /\ isLoading' = isLoading
       /\ \A i \in 1..Len(uploads') :
            UploadErrors(i) => ~form'.fileInputDisabled /\ ~form'.uploadButtonDisabled
      ]_vars

\* an upload whose object was stored has ended with onError while the list holds
\* records, and the controls are enabled
C13_Witness ==
    /\ \E i \in UploadIds : uploads[i].terminal = <<"onError">> /\ uploads[i].stored
    /\ InFlight = {}
    /\ images # <<>>
    /\ ~isLoading
    /\ ~form.fileInputDisabled
    /\ ~form.uploadButtonDisabled


\* C14: validateImageFile returns valid exactly when the type is one of the five
\* image types and the size is at most 5,242,880 bytes; the type rule is checked
\* first; and a second call on the same file gives the same result.
C14_ValidatorRules ==
    [][(call'.fn = "validateImageFile" /\ call'.n > 0) =>
          LET f == call'.file
              typeOk == f.type \in {"image/jpeg", "image/jpg", "image/png", "image/gif",
                                    "image/webp"}
              sizeOk == f.size <= 5242880
          IN  /\ call'.result.valid <=> (typeOk /\ sizeOk)
              /\ ~typeOk =>
                   call'.result.error = "Please select an image file (JPEG, PNG, GIF, or WebP)"
              /\ (typeOk /\ ~sizeOk) => call'.result.error = "File size must be less than 5MB"
              /\ call.n > 0 => call'.result = call.result
      ]_vars

\* a file of exactly 5,242,880 bytes has been accepted twice
C14_Witness ==
    /\ call.fn = "validateImageFile"
    /\ call.n = 2
    /\ call.file.type = "image/webp"
    /\ call.file.size = 5242880
    /\ call.result.valid

\* C15: when the store ends an upload with a failure, uploadFile calls onError with
\* the message of the error code (unauthorized, canceled and unknown have their
\* own, every other code the default) and never calls onComplete.
C15_ErrorMessageByCode ==
    [][/\ \A i \in UploadIds, code \in ErrorCodes :
            UploadFails(i, code) =>
              LET u == uploads'[i]
                  m == u.log[Len(u.log)].arg.message
              IN  /\ u.terminal = <<"onError">>
                  /\ u.log[Len(u.log)].cb = "onError"
                  /\ \A k \in 1..Len(u.log) : u.log[k].cb # "onComplete"
                  /\ code = "storage/unauthorized" =>
                       m = "Permission denied. Check Firebase Storage rules."
                  /\ code = "storage/canceled" => m = "Upload was canceled."
                  /\ code = "storage/unknown" => m = "An unknown error occurred during upload."
                  /\ code \notin {"storage/unauthorized", "storage/canceled", "storage/unknown"}
                       => m = "Upload failed. Please try again."
       /\ \A i \in UploadIds : uploads[i].phase = "done" => uploads'[i] = uploads[i]
       /\ errorMessage("storage/unauthorized") \notin
            {errorMessage("storage/unknown"), errorMessage("storage/retry-limit-exceeded")}
      ]_vars

\* an upload has ended after a progress event with the message for unauthorized
C15_Witness ==
    \E i \in UploadIds :
        /\ uploads[i].phase = "done"
        /\ ~uploads[i].stored
        /\ Len(uploads[i].log) = 2
        /\ uploads[i].log[1].cb = "onProgress"
        /\ uploads[i].log[2] =
             logError([message |-> "Permission denied. Check Firebase Storage rules."])

\* the cards of the grid built for the object upload u stored
CardsOfUpload(u) ==
    IF gridElement.exists
    THEN {k \in GridNodes : /\ gridElement.children[k].kind = "image-card"
                            /\ gridElement.children[k].src = urlOf(fullPathOf(u.filename))}
    ELSE {}

\* C16: the key uploadFile builds for a file named f at time t is the digits of
\* t, one underscore, then f verbatim; once the gallery has listed the object, its
\* card shows f as display name (only the first underscore is consumed) and the
\* date of t (parsed from the part of the key before the first underscore).
C16_KeyRoundTrip ==
    \A i \in UploadIds :
        LET u == uploads[i]
            key == u.filename
            p == Len(key) - Len(u.file.name)
        IN  (u.hasFile /\ u.timestamp # 0) =>
              /\ p >= 2
              /\ SubSeq(key, p + 1, Len(key)) = u.file.name
              /\ key[p] = "_"
              /\ \A k \in 1..(p - 1) : key[k] \in Digits
              /\ DigitsToNum(SubSeq(key, 1, p - 1)) = u.timestamp
              /\ \A k \in CardsOfUpload(u) :
                    /\ gridElement.children[k].imageName = u.file.name
                    /\ gridElement.children[k].meta = [date |-> u.timestamp]

\* a file whose name has a digit and an underscore of its own was uploaded at
\* 1700000000, and the gallery shows the card of the listed object
C16_Witness ==
    /\ Len(uploads) = 1
    /\ uploads[1].timestamp = 1700000000
    /\ uploads[1].file.name = <<"1", "_", "a">>
    /\ uploads[1].filename = <<"1", "7", "0", "0", "0", "0", "0", "0", "0", "0", "_", "1", "_", "a">>
    /\ uploads[1].stored
    /\ images = <<listRecord(uploads[1].filename)>>
    /\ CardsOfUpload(uploads[1]) = {1}
    /\ gridElement.children[1].imageName = <<"1", "_", "a">>


\* C17: from an empty store, once the startup fetch has returned [] the grid shows
\* the empty state; once one upload has then completed the grid holds exactly one
\* image card, whose display name is the name of the file the user chose.
C17_EndToEndDisplayName ==
    (Len(fetches) = 1 /\ fetches[1].phase = "done" /\ fetches[1].ok) =>
        /\ (images = <<>> /\ \A i \in UploadIds : uploads[i].terminal # <<"onComplete">>)
             => gridElement = Grid(<<emptyStateNode>>)
        /\ ( /\ Len(uploads) = 1
             /\ uploads[1].terminal = <<"onComplete">>
             /\ images = <<uploadRecord(uploads[1])>> )
             => /\ gridElement.exists
                /\ Len(gridElement.children) = 1
                /\ gridElement.children[1].kind = "image-card"
                /\ gridElement.children[1].imageName = uploads[1].file.name

\* C18: formatFileName returns a name without underscore unchanged; formatTimestamp
\* returns 'Date unknown' for a missing or empty timestamp and for one that does
\* not start with a digit.
C18_MissingPrefixFallback ==
    /\ ( /\ call.fn = "formatFileName"
         /\ call.n > 0
         /\ \A k \in 1..Len(call.filename) : call.filename[k] # "_" )
         => call.result = call.filename
    /\ ( /\ call.fn = "formatTimestamp"
         /\ call.n > 0
         /\ \/ call.timestamp = undefined
            \/ call.timestamp = [str |-> <<>>]
            \/ /\ "str" \in DOMAIN call.timestamp
               /\ call.timestamp.str # <<>>
               /\ call.timestamp.str[1] \notin Digits )
         => call.result = [text |-> "Date unknown"]

\* C19: isFirebaseConfigured reports the configuration valid only when none of the
\* six fields holds a placeholder value.
C19_AllFieldsChecked ==
    (call.fn = "isFirebaseConfigured" /\ call.n > 0) =>
        (call.result =>
            \A field \in {"apiKey", "authDomain", "projectId", "storageBucket",
                          "messagingSenderId", "appId"} :
                call.firebaseConfig[field] \notin Placeholders)

\* C20: the grid holds only skeleton cards, or only the empty-state block, or only
\* image cards (at least one).
C20_OneVisualState ==
    gridElement.exists =>
        {gridElement.children[k].kind : k \in 1..Len(gridElement.children)}
            \in {{"loading-card"}, {"empty-state"}, {"image-card"}}


\* C21: listAllImages returns one record per listed object, in the order of the
\* store's listing, whatever the order in which the URL lookups resolved, and the
\* app displays them in that order.
C21_ListingOrderKept ==
    (call.fn = "listAllImages" /\ call.phase = "resolved") =>
        /\ Len(call.result) = Len(store)
        /\ \A k \in 1..Len(store) : call.result[k] = listRecord(store[k])
        /\ loadedImages(images, call.result) = [k \in 1..Len(store) |-> listRecord(store[k])]

\* three lookups resolved in an order that is not the listing's
C21_Witness ==
    /\ call.fn = "listAllImages" /\ call.phase = "resolved"
    /\ Len(store) = 3
    /\ call.arrivals = <<3, 1, 2>>
    /\ call.result[1].name = <<"2", "_", "b">>
    /\ call.result[2].name = <<"1", "_", "a">>


\* a step in which a URL lookup of list fetch i rejects
UrlLookupFails(i) ==
    /\ fetches[i].phase = "urls"
    /\ fetches'[i].phase = "done"
    /\ ~fetches'[i].ok

\* C22: a list fetch is delivered as one batch or not at all: a fetch assigns
\* appState.images only the complete listing, every object with its URL, and a
\* fetch in which a URL lookup fails leaves appState.images as it was.
C22_BatchOrNothing ==
    [][/\ \A i \in FetchIds : UrlLookupFails(i) => images' = images
       /\ images' # images =>
            \/ \E i \in UploadIds : UploadCompletes(i)
            \/ \E i \in FetchIds :
                 /\ FetchSucceeds(i)
                 /\ Len(images') = Len(ListingOf(i))
                 /\ \A k \in 1..Len(images') :
                      /\ images'[k].name = ListingOf(i)[k]
                      /\ images'[k].url = urlOf(fullPathOf(ListingOf(i)[k]))
      ]_vars

\* a fetch whose listing held two objects has failed on a URL lookup, and the list
\* still holds the one record it held before
C22_Witness ==
    /\ \E i \in FetchIds :
         /\ fetches[i].phase = "done" /\ ~fetches[i].ok
         /\ Len(fetches[i].listing) = 2
    /\ PendingFetches = {}
    /\ Len(images) = 1


\* C23: every value uploadFile passes to onProgress for a file the validator
\* accepts is an integer in 0..100, and the values do not decrease when
\* bytesTransferred does not.
C23_ProgressIsPercentage ==
    \A i \in UploadIds :
        LET u == uploads[i]
            reports == SelectSeq(u.log, LAMBDA e : e.cb = "onProgress")
        IN  (u.hasFile /\ validateImageFile(u.file).valid) =>
              /\ \A k \in 1..Len(reports) : reports[k].arg \in {[int |-> n] : n \in 0..100}
              /\ \A j, k \in 1..Len(reports) : j <= k => reports[j].arg.int <= reports[k].arg.int


\* what a card shows of its record, whatever became of the download of its img
CardContent(card) == [src |-> card.src, imageName |-> card.imageName, meta |-> card.meta]

\* C24: state and view agree: whenever the grid element exists, its image cards
\* are the cards of appState.images, one per record and in the same order, and it
\* shows the empty state exactly when appState.images is empty.
C24_StateAndViewAgree ==
    gridElement.exists =>
        /\ Len(CardsOf(gridElement.children)) = Len(images)
        /\ \A k \in 1..Len(images) :
              CardContent(CardsOf(gridElement.children)[k]) =
                  CardContent(createImageCard(images[k]))
        /\ (\E k \in 1..Len(gridElement.children) : gridElement.children[k] = emptyStateNode)
              <=> images = <<>>


\* C25: an uploaded image is never lost: once no list fetch is pending,
\* appState.images holds a record of every upload that ended with onComplete.
C25_UploadNeverLost ==
    PendingFetches = {} =>
        \A i \in UploadIds :
            (uploads[i].origin = "form" /\ uploads[i].terminal = <<"onComplete">>) =>
                \E k \in 1..Len(images) : images[k].fullPath = fullPathOf(uploads[i].filename)


\* C26: when list fetches overlap, the fetch started last wins: a fetch that
\* finishes after a fetch started later than it has delivered its result leaves
\* appState.images and the grid as that later fetch set them (no upload having
\* been added to the list).
C26_LastStartedFetchWins ==
    [][\A i \in FetchIds :
          ( /\ FetchSucceeds(i)
            /\ \E j \in FetchIds : j > i /\ fetches[j].phase = "done" /\ fetches[j].ok
            /\ \A u \in UploadIds : uploads[u].terminal # <<"onComplete">> )
          => images' = images /\ gridElement' = gridElement
      ]_vars


\* C27: in the form of createDragDropUploadForm at most one upload is in flight,
\* and while one is in flight or the reset delay of a success is running the upload
\* button is disabled, whatever is dropped, changed or clicked.
C27_DragDropSingleUpload ==
    /\ Cardinality(InFlight) <= 1
    /\ (InFlight # {} \/ timers.reset > 0) => form.uploadButtonDisabled


\* C28: while an upload started from the form is in flight the progress container
\* has class 'active', and once a percentage has been reported the bar shows the
\* last one reported: no timer of an earlier attempt hides the container or
\* resets the bar.
C28_ProgressShownWhileInFlight ==
    \A i \in InFlight :
        uploads[i].origin = "form" =>
            /\ form.active
            /\ (uploads[i].phase = "running" /\ uploads[i].sent > 0) =>
                  form.barWidth = roundProgress(uploads[i].bytes, uploads[i].file.size)


\* C29: showStatusMessage keeps at most one hide timer pending, and the message
\* on show is hidden only once its own duration has elapsed since it was shown: a
\* timer started for an earlier message never hides a later one early.
C29_OneHideTimer ==
    [][call.fn = "showStatusMessage" =>
         /\ Cardinality(banner'.timeouts) <= 1
         /\ (banner.show /\ ~banner'.show) =>
               1000 * call.clock >= 1000 * call.shownAt + call.duration
      ]_vars

\* a second message replaced the first while the first one's timer was pending,
\* and was hidden five seconds after it was shown
C29_Witness ==
    /\ call.fn = "showStatusMessage"
    /\ call.count = 2
    /\ call.shownAt = 1
    /\ call.duration = defaultDuration
    /\ call.clock = 6
    /\ ~banner.show
    /\ banner.timeouts = {}

\* C30: the form always recovers: whenever an upload started from the form has
\* disabled the file input, the input is eventually enabled again with the button
\* text back to 'Upload Image', provided the store answers and the timers fire.
C30_FormRecovers ==
    form.fileInputDisabled ~> (~form.fileInputDisabled /\ form.buttonText = "Upload Image")

\* the parent's success callback threw and the form has recovered
C30_Witness ==
    /\ \E i \in UploadIds : uploads[i].terminal = <<"onComplete", "onError">>
    /\ InFlight = {}
    /\ ~form.fileInputDisabled
    /\ form.buttonText = "Upload Image"

====
